---- MODULE Spec2Model ----
(***************************************************************************)
(* The dispatcher (main), the worker pool and the compile prober of        *)
(* random_c_program_finder.py as one state machine.                        *)
(*                                                                         *)
(* One worker process executes worker() for the tasks of the chunk it took *)
(* from the pool's task queue; its steps are the places where it touches   *)
(* state other processes can see: the file system, the counter lock and    *)
(* the two manager-held counters (every `.value` access is one request to  *)
(* the manager process, so `x.value += 1` is a read followed by a write).  *)
(* The dispatcher is main() from the parsed arguments (line 160) on.        *)
(***************************************************************************)
EXTENDS Integers, Sequences, FiniteSets, TLC

\* ---- bounds of the exploration ----
MaxProcs == 2       \* multiprocessing.cpu_count() ranges over 1..MaxProcs
MaxTasks == 2       \* --tasks ranges over 0..MaxTasks in bounded mode
MaxBatches == 2     \* unbounded mode: batches submitted before the model stops
MaxSuffix == 2      \* uuid4().hex[:8] ranges over MaxSuffix values
MaxTimeout == 3     \* --timeout ranges over 1..MaxTimeout
BasePid == 100      \* the pool's worker w runs in process BasePid + w
MaxSize == 2        \* byte_size ranges over 0..MaxSize, and its default

\* ---- program constants ----
DefaultTimeout == 2   \* test_compilation(..., timeout=2)
BatchFactor == 10     \* batch_size = cpu_count * 10
Unlimited == -1       \* args.tasks == -1
DefaultByteSize == 5  \* byte_size: nargs='?', default=5
ProgressEvery == 100  \* if total_count.value % 100 == 0

NoHolder == 0         \* counter_lock is free
NoTask == -1          \* the worker holds no task
None == <<>>          \* Python's None as a returned file name

VARIABLES
    args,              \* args: byte_size and the alphabet's options
    args_tasks,        \* args.tasks
    args_timeout,      \* args.timeout
    cpu_count,         \* multiprocessing.cpu_count()
    mpc,               \* where main() is
    interrupted,       \* a KeyboardInterrupt was raised in main()
    task_id,           \* main's task_id (unbounded mode)
    batches,           \* number of batches submitted so far
    queue,             \* the pool's task queue: chunks <<first, last>>
    returned,          \* ids of the tasks whose worker() call has returned
    true_results,      \* number of True results handed back to the pool
    proc,              \* the worker processes
    counter_lock,      \* holder of manager.Lock(), or NoHolder
    total_count,       \* manager.Value('i', 0)
    successful_count,  \* manager.Value('i', 0)
    fs,                \* paths that exist in the working directory
    pool_error,        \* a worker() call raised: the pool holds its exception
    manager,           \* Manager() and its lock and counters exist
    throughput_lines,  \* number of "Processing speed" lines printed at line 223
    stats,             \* what the final statistics computed (lines 244-254)
    progress_log       \* the "Progress:" lines printed at line 140, in order

vars == <<args, manager, throughput_lines, stats, progress_log, args_tasks, args_timeout, cpu_count, mpc, interrupted, task_id, batches,
          queue, returned, true_results, proc, counter_lock,
          total_count, successful_count, fs, pool_error>>

config == <<args, args_tasks, args_timeout, cpu_count>>
counters == <<total_count, successful_count>>

Workers == 1 .. cpu_count

Min(a, b) == IF a < b THEN a ELSE b

\* ---- the alphabet and the generator ----

\* string.ascii_lowercase, string.ascii_uppercase, string.digits
Lowercase == <<"a", "b", "c", "d", "e", "f", "g", "h", "i", "j", "k", "l", "m",
               "n", "o", "p", "q", "r", "s", "t", "u", "v", "w", "x", "y", "z">>
Uppercase == <<"A", "B", "C", "D", "E", "F", "G", "H", "I", "J", "K", "L", "M",
               "N", "O", "P", "Q", "R", "S", "T", "U", "V", "W", "X", "Y", "Z">>
DigitChars == <<"0", "1", "2", "3", "4", "5", "6", "7", "8", "9">>

\* the symbols of line 71 and the whitespace of line 73
Symbols == <<"+", "-", "*", "/", "=", "<", ">", "!", "&", "|", "^", "%", "~", "?",
             ":", ";", ",", ".", "(", ")", "{", "}", "[", "]", "'", "\"", "\\">>
Whitespace == <<" ", "\t", "\n">>

\* --charset as the runs use it: not given (None), or given as one of these
CustomCharsets == {<<>>, <<"{", "}">>}
NoCustom == [given |-> FALSE, value |-> <<>>]

\* Python's truth value of custom_charset: None and "" are false
Truthy(custom) == custom.given /\ custom.value # <<>>

\* get_charset, lines 57-74
get_charset(include_lowercase, include_uppercase, include_digits, include_symbols, include_whitespace, custom_charset) ==
    IF Truthy(custom_charset) THEN custom_charset.value
    ELSE (IF include_lowercase THEN Lowercase ELSE <<>>)
            \o (IF include_uppercase THEN Uppercase ELSE <<>>)
            \o (IF include_digits THEN DigitChars ELSE <<>>)
            \o (IF include_symbols THEN Symbols ELSE <<>>)
            \o (IF include_whitespace THEN Whitespace ELSE <<>>)

\* charset as main() computes it from the arguments (lines 163-170)
Charset ==
    get_charset(~args.no_lowercase, ~args.no_uppercase, ~args.no_digits,
                ~args.no_symbols, args.whitespace, args.charset)

\* a main() that never refuses its alphabet
ConfigErrorNever(charset) == FALSE

\* if not charset: (line 172)
ConfigError(charset) == charset = <<>>

\* the pseudo-random generator: random.seed(s) fixes the sequence of draws; the
\* Mersenne Twister is stood for by a small linear congruential generator
RandModulus == 65537
NextRand(x) == (x * 75 + 74) % RandModulus

\* random.choice(charset) with the generator in state x; IndexError on an empty
\* sequence is the caller's ChoiceRaises
Choice(charset, x) == charset[(x % Len(charset)) + 1]

\* a generator that draws once more than asked
RECURSIVE generate_one_more(_, _, _)
generate_one_more(size, charset, x) ==
    IF size < 0 THEN <<>>
    ELSE <<Choice(charset, NextRand(x))>>
            \o generate_one_more(size - 1, charset, NextRand(x))

\* generate_random_c_content (lines 76-78) with the generator in state x:
\* ''.join(random.choice(charset) for _ in range(size))
RECURSIVE generate_random_c_content(_, _, _)
generate_random_c_content(size, charset, x) ==
    IF size <= 0 THEN <<>>
    ELSE <<Choice(charset, NextRand(x))>>
            \o generate_random_c_content(size - 1, charset, NextRand(x))

\* random.choice raises IndexError: a draw is made from an empty sequence
ChoiceRaises(size, charset) == size > 0 /\ charset = <<>>

\* ---- file names ----
HexChars == <<"0", "1", "2", "3", "4", "5", "6", "7",
              "8", "9", "a", "b", "c", "d", "e", "f">>

RECURSIVE Digits(_)
\* str(n) for n >= 0, as f"{pid}" renders it
Digits(n) ==
    IF n < 10 THEN <<HexChars[n + 1]>>
    ELSE Digits(n \div 10) \o <<HexChars[(n % 10) + 1]>>

\* uuid.uuid4().hex[:8] of a uuid whose leading 32 bits are u
Hex8(u) == [i \in 1 .. 8 |-> HexChars[((u \div (16 ^ (8 - i))) % 16) + 1]]

\* os.getpid() in pool worker w
PidOf(w) == BasePid + w

\* filename = f"{pid}_{unique_id}", for the pool's process ids and the suffixes
FileNames ==
    [pid \in {PidOf(w) : w \in 1 .. MaxProcs}, u \in 1 .. MaxSuffix |->
        Digits(pid) \o <<"_">> \o Hex8(u)]

\* a FileName that leaves the process id out
FileNameNoPid(pid, u) == Hex8(u)

\* filename = f"{pid}_{unique_id}"
FileName(pid, u) == FileNames[pid, u]

CFile(filename) == filename \o <<".", "c">>
OFile(filename) == filename \o <<".", "o">>

\* random.seed(pid + task_id)
Seed(pid, task) == pid + task

\* ---- the compile prober: test_compilation ----

\* what subprocess.run([compiler, "-c", c_file], timeout=...) can do: return with
\* an exit status, raise TimeoutExpired, or raise because the compiler could not be
\* launched; obj tells whether the compiler left the object file behind
Outcomes ==
    [kind : {"exit"}, rc : {0, 1}, obj : BOOLEAN]
        \cup [kind : {"timeout"}, rc : {-1}, obj : BOOLEAN]
        \cup [kind : {"launch"}, rc : {-1}, obj : {FALSE}]

\* an except branch that forgets the source file
AfterTryKeepsSource(files, filename, out) ==
    IF out.kind = "exit"
    THEN IF out.rc = 0 THEN files
         ELSE (files \ {CFile(filename)}) \ {OFile(filename)}
    ELSE files

\* the try statement, lines 91-109: the files left when it is over
AfterTry(files, filename, out) ==
    IF out.kind = "exit"
    THEN IF out.rc = 0 THEN files
         ELSE (files \ {CFile(filename)}) \ {OFile(filename)}
    ELSE files \ {CFile(filename)}

\* a prober without lines 112-113
RemoveObjectSkipped(files, filename) == files

\* lines 112-113: if os.path.exists(f"{filename}.o"): os.remove(f"{filename}.o")
RemoveObject(files, filename) == files \ {OFile(filename)}

\* success as computed at line 97 (try) or line 106 (except)
ProbeSuccess(out) == out.kind = "exit" /\ out.rc = 0

\* a handler for the expired timeout only
CaughtTimeoutOnly(out) == out.kind = "timeout"

\* except Exception (line 105) handles what subprocess.run raised:
\* TimeoutExpired and the OSError of a failed launch are both Exceptions
Caught(out) == out.kind \in {"timeout", "launch"}

\* error_message: the compiler's stderr (line 98) or str(e) (line 107)
ErrorMessage(out) ==
    IF out.kind = "exit" THEN (IF out.rc = 0 THEN "" ELSE "stderr") ELSE out.kind

\* test_compilation from the compiler's outcome on: the value it returns
\* (success, c_file if success else None, error_message) and the files it
\* leaves; raised tells that an exception left the try statement unhandled, and
\* with it test_compilation
TestCompilation(files, filename, out) ==
    LET ran == IF out.obj THEN files \cup {OFile(filename)} ELSE files
        raised == out.kind # "exit" /\ ~Caught(out)
    IN  [raised |-> raised,
         success |-> ProbeSuccess(out),
         cfile |-> IF ProbeSuccess(out) THEN CFile(filename) ELSE None,
         error |-> ErrorMessage(out),
         fs |-> IF raised THEN ran
                ELSE RemoveObject(AfterTry(ran, filename, out), filename)]

\* the timeout worker() makes test_compilation apply: it passes none (line 126),
\* so the parameter's default is used
ProbeTimeout == DefaultTimeout

\* ---- the worker processes ----

BlankProc ==
    [alive |-> FALSE, pc |-> "idle", task |-> NoTask, last |-> NoTask, seed |-> 0,
     suffix |-> 0, timeout |-> 0, success |-> FALSE, cfile |-> None,
     content |-> <<>>, counted |-> 0, tmp |-> 0]

\* the worker process after worker() is over for its task: the next task of its
\* chunk is its next one, if there is one
NextTask(p) ==
    IF p.task < p.last
    THEN [BlankProc EXCEPT !.alive = TRUE, !.task = p.task + 1, !.last = p.last]
    ELSE [BlankProc EXCEPT !.alive = TRUE]

\* a critical section that counts the success before the attempt
CsNextSuccessFirst(pc, success) ==
    CASE pc = "returned" -> IF success THEN "r_succ" ELSE "r_total"
      [] pc = "r_succ" -> "w_succ"
      [] pc = "w_succ" -> "r_total"
      [] pc = "r_total" -> "w_total"
      [] pc = "w_total" -> "release"
      [] OTHER -> "idle"

\* the order of the steps of lines 128-140
CsNext(pc, success) ==
    CASE pc = "returned" -> "r_total"
      [] pc = "r_total" -> "w_total"
      [] pc = "w_total" -> IF success THEN "r_succ" ELSE "release"
      [] pc = "r_succ" -> "w_succ"
      [] pc = "w_succ" -> "release"
      [] OTHER -> "idle"

\* the worker's positions inside `with counter_lock:`
CsPcs == {"r_total", "w_total", "r_succ", "w_succ", "release"}

\* a lock that lets everybody in
CanAcquireAlways(w) == TRUE

\* counter_lock.acquire() succeeds
CanAcquire(w) == counter_lock = NoHolder

\* the worker takes its next task (the next one of its chunk, or the first of the
\* chunk at the head of the task queue), seeds, generates and writes the source
\* file: lines 119-125 and 82-88. A generator that raises leaves worker() at
\* line 125, and the exception becomes the task's result in the pool
BeginProbe(w, u) ==
    /\ proc[w].alive /\ proc[w].pc = "idle"
    /\ LET own == proc[w].task # NoTask
           t == IF own THEN proc[w].task ELSE Head(queue)[1]
           l == IF own THEN proc[w].last ELSE Head(queue)[2]
           seed == Seed(PidOf(w), t)
       IN  /\ own \/ queue # <<>>
           /\ queue' = IF own THEN queue ELSE Tail(queue)
           /\ IF ChoiceRaises(args.byte_size, Charset)
              THEN /\ proc' = [proc EXCEPT ![w] =
                          NextTask([proc[w] EXCEPT !.task = t, !.last = l])]
                   /\ returned' = returned \cup {t}
                   /\ pool_error' = TRUE
                   /\ fs' = fs
              ELSE /\ proc' = [proc EXCEPT ![w] =
                          [@ EXCEPT !.pc = "compiling", !.task = t, !.last = l,
                                    !.seed = seed, !.suffix = u,
                                    !.content = generate_random_c_content(
                                                    args.byte_size, Charset, seed),
                                    !.timeout = ProbeTimeout]]
                   /\ fs' = fs \cup {CFile(FileName(PidOf(w), u))}
                   /\ UNCHANGED <<returned, pool_error>>
    /\ UNCHANGED <<config, progress_log, manager, throughput_lines, stats, mpc, interrupted,
                   task_id, batches,
                   true_results, counter_lock, counters>>

\* the compiler invocation ends and test_compilation cleans up and returns
\* (lines 91-115), its error_message being used for a print only (lines
\* 133-135); an exception it lets through leaves worker() at line 126 and becomes
\* the task's result in the pool
FinishProbe(w, out) ==
    /\ proc[w].alive /\ proc[w].pc = "compiling"
    /\ LET r == TestCompilation(fs, FileName(PidOf(w), proc[w].suffix), out)
       IN  /\ fs' = r.fs
           /\ IF r.raised
              THEN /\ proc' = [proc EXCEPT ![w] = NextTask(proc[w])]
                   /\ returned' = returned \cup {proc[w].task}
                   /\ pool_error' = TRUE
              ELSE /\ proc' = [proc EXCEPT ![w] =
                          [@ EXCEPT !.pc = "returned", !.success = r.success,
                                    !.cfile = r.cfile]]
                   /\ UNCHANGED <<returned, pool_error>>
    /\ UNCHANGED <<config, progress_log, manager, throughput_lines, stats, mpc, interrupted,
                   task_id, batches, queue,
                   true_results, counter_lock, counters>>

\* with counter_lock: (line 128)
Acquire(w) ==
    /\ proc[w].alive /\ proc[w].pc = "returned"
    /\ CanAcquire(w)
    /\ counter_lock' = w
    /\ proc' = [proc EXCEPT ![w].pc = CsNext("returned", proc[w].success)]
    /\ UNCHANGED <<config, progress_log, manager, throughput_lines, stats, pool_error, mpc,
                   interrupted, task_id, batches, queue,
                   returned, true_results, counters, fs>>

\* total_count.value += 1 (line 129): the read
ReadTotal(w) ==
    /\ proc[w].alive /\ proc[w].pc = "r_total"
    /\ proc' = [proc EXCEPT ![w] =
           [@ EXCEPT !.pc = CsNext("r_total", proc[w].success), !.tmp = total_count]]
    /\ UNCHANGED <<config, progress_log, manager, throughput_lines, stats, pool_error, mpc,
                   interrupted, task_id, batches, queue,
                   returned, true_results, counter_lock, counters, fs>>

\* total_count.value += 1 (line 129): the write
WriteTotal(w) ==
    /\ proc[w].alive /\ proc[w].pc = "w_total"
    /\ total_count' = proc[w].tmp + 1
    /\ proc' = [proc EXCEPT ![w] =
           [@ EXCEPT !.pc = CsNext("w_total", proc[w].success),
                     !.counted = @ + 1, !.tmp = 0]]
    /\ UNCHANGED <<config, progress_log, manager, throughput_lines, stats, pool_error, mpc,
                   interrupted, task_id, batches, queue,
                   returned, true_results, counter_lock, successful_count, fs>>

\* successful_count.value += 1 (line 131): the read
ReadSucc(w) ==
    /\ proc[w].alive /\ proc[w].pc = "r_succ"
    /\ proc' = [proc EXCEPT ![w] =
           [@ EXCEPT !.pc = CsNext("r_succ", proc[w].success),
                     !.tmp = successful_count]]
    /\ UNCHANGED <<config, progress_log, manager, throughput_lines, stats, pool_error, mpc,
                   interrupted, task_id, batches, queue,
                   returned, true_results, counter_lock, counters, fs>>

\* successful_count.value += 1 (line 131): the write, and the print of line 132
WriteSucc(w) ==
    /\ proc[w].alive /\ proc[w].pc = "w_succ"
    /\ successful_count' = proc[w].tmp + 1
    /\ proc' = [proc EXCEPT ![w] =
           [@ EXCEPT !.pc = CsNext("w_succ", proc[w].success), !.tmp = 0]]
    /\ UNCHANGED <<config, progress_log, manager, throughput_lines, stats, pool_error, mpc,
                   interrupted, task_id, batches, queue,
                   returned, true_results, counter_lock, total_count, fs>>

\* a with statement that keeps the lock when it is left
ReleasedNever(w) == w

\* the holder of counter_lock once worker w has left the with statement of
\* line 128
Released(w) == NoHolder

\* a periodic line at every attempt
ProgressDueAlways(total) == TRUE

\* if total_count.value % 100 == 0: (line 138)
ProgressDue(total) == total % ProgressEvery = 0

\* the periodic statistics (lines 138-140, reads only), the end of the with
\* statement and return success (line 142): the result goes back to the pool
Release(w) ==
    /\ proc[w].alive /\ proc[w].pc = "release"
    /\ progress_log' =
          IF ProgressDue(total_count)
          THEN Append(progress_log, [attempts |-> total_count,
                                     successes |-> successful_count, by |-> w])
          ELSE progress_log
    /\ counter_lock' = Released(w)
    /\ returned' = returned \cup {proc[w].task}
    /\ true_results' = true_results + (IF proc[w].success THEN 1 ELSE 0)
    /\ proc' = [proc EXCEPT ![w] = NextTask(proc[w])]
    /\ UNCHANGED <<config, manager, throughput_lines, stats, pool_error, mpc,
                   interrupted, task_id, batches, queue,
                   counters, fs>>

WorkerStep(w) ==
    \/ \E u \in 1 .. MaxSuffix : BeginProbe(w, u)
    \/ \E out \in Outcomes : FinishProbe(w, out)
    \/ Acquire(w)
    \/ ReadTotal(w)
    \/ WriteTotal(w)
    \/ ReadSucc(w)
    \/ WriteSucc(w)
    \/ Release(w)

\* ---- the dispatcher: main() ----

\* the chunks <<first, last>> of the n task ids lo, lo + 1, ... in groups of size
Chunks(lo, n, size) ==
    [i \in 1 .. ((n + size - 1) \div size) |->
        <<lo + (i - 1) * size, Min(lo + i * size, lo + n) - 1>>]

\* Pool.map's chunk size for n tasks: divmod(n, len(pool) * 4), rounded up
MapChunkSize(n, procs) ==
    IF n % (procs * 4) = 0 THEN n \div (procs * 4) ELSE (n \div (procs * 4)) + 1

\* a task list that starts at id 1
BoundedTasksFromOne(n) == Chunks(1, n - 1, 1)

\* a task list that holds every task twice
BoundedTasksTwice(n) == Chunks(0, n, 1) \o Chunks(0, n, 1)

\* bounded mode: tasks = [(i, ...) for i in range(args.tasks)], handed to
\* imap_unordered one by one (lines 230-236)
BoundedTasks(n) == Chunks(0, n, 1)

\* batch_size = cpu_count * 10 (line 211), for a pool of cpus processes
batch_size(cpus) == cpus * BatchFactor

\* the batch built at lines 211-214 from task_id = first, as pool.map cuts it
\* for a pool of cpus processes (line 218)
batch_tasks(first, cpus) ==
    Chunks(first, batch_size(cpus), MapChunkSize(batch_size(cpus), cpus))

BatchSize == batch_size(cpu_count)

\* a batch that starts at id 0 whatever task_id is
BatchTasksFromZero(first) == batch_tasks(0, cpu_count)

\* unbounded mode: the batch the dispatcher submits (lines 211-218)
BatchTasks(first) == batch_tasks(first, cpu_count)

\* a pool.map that returns as soon as the task queue is empty
QueueEmpty == queue = <<>>

\* every task handed to the pool has returned its result
AllReturned ==
    /\ queue = <<>>
    /\ \A w \in Workers : proc[w].pc = "idle" /\ proc[w].task = NoTask

\* Pool.__exit__ is terminate(): every worker process is killed where it is
Terminated(p) == [w \in DOMAIN p |-> [p[w] EXCEPT !.alive = FALSE]]

\* the pool's processes once Pool(processes=cpu_count) has started them
Started(p) == [w \in DOMAIN p |-> [p[w] EXCEPT !.alive = TRUE]]

\* lines 163-199: the alphabet is computed and checked; an empty one ends the
\* run at line 174, otherwise the manager, its lock and its counters are created
Setup ==
    /\ mpc = "parse"
    /\ IF ConfigError(Charset)
       THEN mpc' = "config_error" /\ manager' = manager
       ELSE mpc' = "start" /\ manager' = TRUE
    /\ UNCHANGED <<config, progress_log, throughput_lines, stats, pool_error, interrupted,
                   task_id, batches, queue,
                   returned, true_results, proc, counter_lock, counters, fs>>

\* line 202 on: the mode is chosen and the pool is created; in bounded mode the
\* tasks are built and submitted (lines 230-236)
Start ==
    /\ mpc = "start"
    /\ proc' = Started(proc)
    /\ IF args_tasks = Unlimited
       THEN /\ task_id' = 0
            /\ queue' = queue
            /\ mpc' = "u_build"
       ELSE /\ task_id' = task_id
            /\ queue' = BoundedTasks(args_tasks)
            /\ mpc' = "b_drain"
    /\ UNCHANGED <<config, progress_log, manager, throughput_lines, stats, pool_error,
                   interrupted, batches, returned, true_results,
                   counter_lock, counters, fs>>

\* unbounded mode: a batch is built and pool.map is called (lines 211-218)
BuildBatch ==
    /\ mpc = "u_build"
    /\ batches < MaxBatches
    /\ queue' = BatchTasks(task_id)
    /\ task_id' = task_id + BatchSize
    /\ batches' = batches + 1
    /\ mpc' = "u_wait"
    /\ UNCHANGED <<config, progress_log, manager, throughput_lines, stats, pool_error,
                   interrupted, returned, true_results, proc,
                   counter_lock, counters, fs>>

\* pool.map returns when every task of the batch has returned (line 218), or
\* raises the exception a worker() call raised: no handler of main() takes it
MapReturns ==
    /\ mpc = "u_wait"
    /\ AllReturned
    /\ mpc' = IF pool_error THEN "crashed" ELSE "u_progress"
    /\ UNCHANGED <<config, progress_log, manager, throughput_lines, stats, pool_error,
                   interrupted, task_id, batches, queue, returned,
                   true_results, proc, counter_lock, counters, fs>>

\* the rolling throughput line: total_count.value is read twice (lines 221-223)
PrintProgress ==
    /\ mpc = "u_progress"
    /\ mpc' = "u_build"
    /\ throughput_lines' = throughput_lines + 1
    /\ UNCHANGED <<config, progress_log, manager, stats, pool_error, interrupted, task_id,
                   batches, queue, returned,
                   true_results, proc, counter_lock, counters, fs>>

\* bounded mode: imap_unordered is exhausted, the with statement ends (lines
\* 235-237); the iteration raises the exception a worker() call raised
BoundedDone ==
    /\ mpc = "b_drain"
    /\ AllReturned
    /\ proc' = Terminated(proc)
    /\ mpc' = IF pool_error THEN "crashed" ELSE "report"
    /\ UNCHANGED <<config, progress_log, manager, throughput_lines, stats, pool_error,
                   interrupted, task_id, batches, queue, returned,
                   true_results, counter_lock, counters, fs>>

\* main's positions inside one of the try statements of lines 207 and 234
InTry == {"u_build", "u_wait", "u_progress", "b_drain"}

\* SIGINT reaches main(): KeyboardInterrupt is raised where main is. Inside a try
\* statement it unwinds to the pool's with statement; before line 202, at lines
\* 202-205 and at lines 229-232 no handler encloses it and it leaves main()
Interrupt ==
    /\ ~interrupted
    /\ mpc \in InTry \cup {"parse", "start"}
    /\ interrupted' = TRUE
    /\ mpc' = IF mpc \in InTry THEN "interrupted" ELSE "crashed"
    /\ UNCHANGED <<config, progress_log, manager, throughput_lines, stats, pool_error,
                   task_id, batches, queue, returned, true_results, proc,
                   counter_lock, counters, fs>>

\* the exception leaves the with statement, which terminates the pool, and
\* except KeyboardInterrupt handles it (lines 225-226, 239-240)
Stopped ==
    /\ mpc = "interrupted"
    /\ proc' = Terminated(proc)
    /\ mpc' = "report"
    /\ UNCHANGED <<config, progress_log, manager, throughput_lines, stats, pool_error,
                   interrupted, task_id, batches, queue, returned,
                   true_results, counter_lock, counters, fs>>

\* calculate_combinations (lines 43-45): charset_size ** length, kept as the
\* power it is; with a non-empty alphabet it is not zero
calculate_combinations(charset_size, length) == [base |-> charset_size, exp |-> length]

\* a / b as Python computes it: the quotient, kept as the pair of its operands;
\* with b = 0 the division raises ZeroDivisionError
TrueDiv(a, b) == [num |-> a, den |-> b]
Zero == [num |-> 0, den |-> 1]
Raises(q) == q.den = 0
IsZero(q) == ~Raises(q) /\ q.num = 0

\* rate = total_count.value / elapsed if elapsed > 0 else 0 (line 245)
Rate(total, elapsed) == IF elapsed > 0 THEN TrueDiv(total, elapsed) ELSE Zero

\* a success rate computed without looking at the total
SuccessRateUnguarded(successful, total) == TrueDiv(successful * 100, total)

\* success_rate = successful / total * 100 if total > 0 else 0 (line 246)
SuccessRate(successful, total) ==
    IF total > 0 THEN TrueDiv(successful * 100, total) ELSE Zero

\* time.time() - start_time as the final statistics see it: not positive (a
\* coarse or stepped clock), or positive
ClockDifferences == {0, 1}

\* the final statistics not computed
NoStats ==
    [computed |-> FALSE, elapsed |-> 0, rate |-> Zero, success_rate |-> Zero,
     estimated |-> FALSE, dividend |-> calculate_combinations(0, 0),
     divisor |-> Zero, raised |-> FALSE]

\* lines 243-271 with the clock's difference being elapsed: rate, success_rate
\* and, if rate > 0, seconds_needed = combinations / rate; an exception raised
\* on the way is printed by the handler of line 270
FinalStats(total, successful, elapsed, combinations) ==
    LET rate == Rate(total, elapsed)
        success_rate == SuccessRate(successful, total)
        reached == ~Raises(rate) /\ ~Raises(success_rate)
        estimated == reached /\ rate.num > 0
    IN  [computed |-> TRUE, elapsed |-> elapsed, rate |-> rate,
         success_rate |-> success_rate,
         estimated |-> estimated,
         dividend |-> IF estimated THEN combinations
                      ELSE calculate_combinations(0, 0),
         divisor |-> IF estimated THEN rate ELSE Zero,
         raised |-> Raises(rate) \/ Raises(success_rate)
                      \/ (estimated /\ IsZero(rate))]

\* the final statistics: the counters are read and the figures computed and
\* printed (lines 243-271)
Report ==
    /\ mpc = "report"
    /\ \E elapsed \in ClockDifferences :
          stats' = FinalStats(total_count, successful_count, elapsed,
                       calculate_combinations(Len(Charset), args.byte_size))
    /\ mpc' = "done"
    /\ UNCHANGED <<config, progress_log, manager, throughput_lines, pool_error, interrupted,
                   task_id, batches, queue, returned,
                   true_results, proc, counter_lock, counters, fs>>

MainStep ==
    \/ Setup
    \/ Start
    \/ BuildBatch
    \/ MapReturns
    \/ PrintProgress
    \/ BoundedDone
    \/ Stopped
    \/ Report

\* the command lines explored: the options of the alphabet
ArgsSet ==
    [byte_size : (0 .. MaxSize) \cup {DefaultByteSize},
     no_lowercase : BOOLEAN, no_uppercase : BOOLEAN, no_digits : BOOLEAN,
     no_symbols : BOOLEAN, whitespace : BOOLEAN,
     charset : {NoCustom} \cup [given : {TRUE}, value : CustomCharsets]]

\* the command line without options
DefaultArgs ==
    [byte_size |-> DefaultByteSize,
     no_lowercase |-> FALSE, no_uppercase |-> FALSE, no_digits |-> FALSE,
     no_symbols |-> FALSE, whitespace |-> FALSE, charset |-> NoCustom]

\* the state when main() has parsed its arguments (line 160): nothing exists yet.
\* The unbounded mode, whose batches grow with the pool, is explored with a pool
\* of one process, the values of --timeout other than the default with bounded
\* runs of one process, and the options of the alphabet and the byte sizes
\* other than the default with runs of at most one task in one process
Init ==
    /\ cpu_count \in 1 .. MaxProcs
    /\ args_tasks \in (0 .. MaxTasks) \cup {Unlimited}
    /\ args_tasks = Unlimited => cpu_count = 1
    /\ args_timeout \in 1 .. MaxTimeout
    /\ args_timeout # DefaultTimeout => cpu_count = 1 /\ args_tasks # Unlimited
    /\ args \in ArgsSet
    /\ args # DefaultArgs
          => cpu_count = 1 /\ args_tasks \in {0, 1} /\ args_timeout = DefaultTimeout
    /\ mpc = "parse"
    /\ manager = FALSE
    /\ interrupted = FALSE
    /\ task_id = 0
    /\ batches = 0
    /\ queue = <<>>
    /\ returned = {}
    /\ true_results = 0
    /\ proc = [w \in 1 .. cpu_count |-> BlankProc]
    /\ counter_lock = NoHolder
    /\ total_count = 0
    /\ successful_count = 0
    /\ fs = {}
    /\ pool_error = FALSE
    /\ throughput_lines = 0
    /\ stats = NoStats
    /\ progress_log = <<>>

Next ==
    \/ MainStep
    \/ Interrupt
    \/ \E w \in Workers : WorkerStep(w)

Spec == Init /\ [][Next]_vars

\* the scheduler runs every process that can take a step; the interrupt is the
\* environment's and may never come
LiveSpec ==
    /\ Spec
    /\ WF_vars(MainStep)
    /\ \A w \in 1 .. MaxProcs : WF_vars(w \in Workers /\ WorkerStep(w))

\* a bounded run one attempt before the first periodic line: ProgressEvery - 1
\* tasks have returned, all of them failures, the workers are between two
\* tasks and up to MaxTasks tasks are left in the queue
ProgressInit ==
    /\ cpu_count \in 1 .. MaxProcs
    /\ args_tasks \in (ProgressEvery - 1) .. (ProgressEvery - 1 + MaxTasks)
    /\ args_timeout = DefaultTimeout
    /\ args = DefaultArgs
    /\ mpc = "b_drain"
    /\ manager = TRUE
    /\ interrupted = FALSE
    /\ task_id = 0
    /\ batches = 0
    /\ queue = Chunks(ProgressEvery - 1, args_tasks - (ProgressEvery - 1), 1)
    /\ returned = 0 .. (ProgressEvery - 2)
    /\ true_results = 0
    /\ proc = Started([w \in 1 .. cpu_count |-> BlankProc])
    /\ counter_lock = NoHolder
    /\ total_count = ProgressEvery - 1
    /\ successful_count = 0
    /\ fs = {}
    /\ pool_error = FALSE
    /\ throughput_lines = 0
    /\ stats = NoStats
    /\ progress_log = <<>>

\* the steps of a bounded run from there on
ProgressNext ==
    \/ BoundedDone
    \/ Stopped
    \/ Report
    \/ Interrupt
    \/ \E w \in Workers : WorkerStep(w)

ProgressSpec == ProgressInit /\ [][ProgressNext]_vars

\* ---- the claims ----

Reporting == {"report", "done"}

\* the worker is executing a task: from the start of worker() to its return
Executing(w) == proc[w].pc # "idle"

\* the file name of the probe worker w is making or has made for its task
ProbeName(w) == FileName(PidOf(w), proc[w].suffix)

\* C1: after a bounded run of T tasks that was not interrupted, total_count is
\* exactly T and successful_count lies in 0 .. T
C1_BoundedRunCounts ==
    (args_tasks # Unlimited /\ ~interrupted /\ mpc \in Reporting)
        => (total_count = args_tasks /\ successful_count \in 0 .. args_tasks)

C1_Witness ==
    /\ args_tasks >= 2 /\ cpu_count >= 2 /\ ~interrupted /\ mpc = "done"
    /\ total_count = args_tasks /\ successful_count = 1

\* C2: in every reachable state, also when the pool was terminated while a
\* worker was inside its critical section, successful_count <= total_count
C2_SuccessesAtMostAttempts == successful_count <= total_count

C2_Witness ==
    /\ interrupted /\ mpc \in Reporting
    /\ \E w \in Workers :
          /\ ~proc[w].alive /\ proc[w].success /\ proc[w].pc \in {"r_succ", "w_succ"}
          /\ counter_lock = w
    /\ successful_count < total_count

\* C3: once an interrupt has reached the dispatcher of an unbounded run, no batch
\* is submitted any more and the dispatcher is at the final statistics or can
\* still take a step towards them: it is never stuck anywhere else
C3_InterruptedReachesReport ==
    (args_tasks = Unlimited /\ interrupted)
        => /\ mpc \in Reporting \/ ENABLED MainStep
           /\ mpc # "u_wait" /\ ~ENABLED BuildBatch

\* C4: the counters never decrease, and they count the completed worker tasks
\* one by one: total_count is the number of tasks whose increment was written,
\* successful_count the number of successful ones among them
C4_NoLostOrDuplicateIncrement ==
    /\ [](/\ total_count = Cardinality(returned)
                + Cardinality({w \in Workers : proc[w].pc \in {"r_succ", "w_succ", "release"}})
          /\ successful_count = true_results
                + Cardinality({w \in Workers : proc[w].pc = "release" /\ proc[w].success}))
    /\ [][/\ total_count' >= total_count
          /\ successful_count' >= successful_count
          /\ \A w \in Workers :
                Release(w) => total_count' = total_count
                                /\ successful_count' = successful_count]_vars

C4_Witness ==
    \E w1, w2 \in Workers :
        /\ w1 # w2 /\ proc[w1].alive /\ proc[w2].alive
        /\ proc[w1].pc = "w_total" /\ proc[w2].pc = "returned"
        /\ counter_lock = w1

\* the dispatcher as a holder of the lock: the pool's workers are 1 .. cpu_count
Main == cpu_count + 1

\* main's positions at which it reads the counters (lines 222-223, 245-248)
MainReads == {"u_progress", "report"}

\* a live worker is inside `with counter_lock:`
InCs(w) == proc[w].alive /\ proc[w].pc \in CsPcs

\* C5 as stated: every access to the counters, the dispatcher's reads included,
\* is made by a process that holds the counter lock
C5_EveryAccessUnderLock ==
    /\ \A w \in Workers : InCs(w) => counter_lock = w
    /\ mpc \in MainReads => counter_lock = Main

\* C5 as amended: a worker reads and updates the counters only while it holds
\* the counter lock; the dispatcher reads them without the lock, and only when
\* no live worker is inside its critical section
C5_WorkersUnderLockMainWhenQuiet ==
    /\ \A w \in Workers : InCs(w) => counter_lock = w
    /\ mpc \in MainReads
          => counter_lock # Main /\ \A w \in Workers : ~InCs(w)

C5_Witness ==
    /\ mpc = "report" /\ counter_lock \in Workers
    /\ total_count >= 1
    /\ \E w \in Workers : ~proc[w].alive /\ proc[w].pc \in CsPcs

\* C6: the timeout applied to every compiler invocation is the timeout
\* configured for the run
C6_ConfiguredTimeoutApplied ==
    \A w \in Workers : proc[w].pc = "compiling" => proc[w].timeout = args_timeout

\* C7: for every probe that fails, whatever the failure (non-zero exit,
\* timeout, launch failure), test_compilation returns success = False and no
\* file name, and neither the probe's .c file nor its .o file exists then
C7_FailedProbeLeavesNothing ==
    [][\A w \in Workers :
          (proc[w].pc = "compiling" /\ proc'[w].pc = "returned")
              => \A out \in Outcomes :
                    (~(out.kind = "exit" /\ out.rc = 0) /\ FinishProbe(w, out))
                        => /\ proc'[w].success = FALSE
                           /\ proc'[w].cfile = None
                           /\ CFile(ProbeName(w)) \notin fs'
                           /\ OFile(ProbeName(w)) \notin fs']_vars

C7_Witness ==
    \E w \in Workers :
        /\ proc[w].pc = "returned" /\ ~proc[w].success /\ proc[w].cfile = None
        /\ CFile(ProbeName(w)) \notin fs /\ OFile(ProbeName(w)) \notin fs

\* C8: for every probe whose compiler exits with status zero, test_compilation
\* returns success = True and the source file's name, and of the probe's files
\* exactly the .c file exists then
C8_SuccessfulProbeKeepsSource ==
    [][\A w \in Workers :
          (proc[w].pc = "compiling" /\ proc'[w].pc = "returned")
              => \A out \in Outcomes :
                    (out.kind = "exit" /\ out.rc = 0 /\ FinishProbe(w, out))
                        => /\ proc'[w].success = TRUE
                           /\ proc'[w].cfile = CFile(ProbeName(w))
                           /\ CFile(ProbeName(w)) \in fs'
                           /\ OFile(ProbeName(w)) \notin fs']_vars

C8_Witness ==
    \E w \in Workers :
        /\ proc[w].pc = "returned" /\ proc[w].success
        /\ proc[w].cfile = CFile(ProbeName(w)) /\ proc[w].cfile \in fs
        /\ OFile(ProbeName(w)) \notin fs

\* C9: two probes in progress at the same time in different worker processes
\* never use the same file name, hence never the same .c or .o path
C9_ConcurrentProbesDistinctFiles ==
    \A w1, w2 \in Workers :
        (/\ w1 # w2
         /\ proc[w1].alive /\ proc[w1].pc = "compiling"
         /\ proc[w2].alive /\ proc[w2].pc = "compiling")
            => /\ ProbeName(w1) # ProbeName(w2)
               /\ {CFile(ProbeName(w1)), OFile(ProbeName(w1))}
                      \cap {CFile(ProbeName(w2)), OFile(ProbeName(w2))} = {}

C9_Witness ==
    \E w1, w2 \in Workers :
        /\ w1 # w2
        /\ proc[w1].alive /\ proc[w1].pc = "compiling"
        /\ proc[w2].alive /\ proc[w2].pc = "compiling"
        /\ proc[w1].suffix = proc[w2].suffix
        /\ CFile(ProbeName(w1)) \in fs /\ CFile(ProbeName(w2)) \in fs

\* C10: two distinct tasks executing at the same time in different worker
\* processes never have the same seed
C10_ConcurrentSeedsDistinct ==
    \A w1, w2 \in Workers :
        (/\ w1 # w2
         /\ proc[w1].alive /\ Executing(w1)
         /\ proc[w2].alive /\ Executing(w2)
         /\ proc[w1].task # proc[w2].task)
            => proc[w1].seed # proc[w2].seed

\* the compiler subprocess worker w has launched in subprocess.run (lines 92-96)
\* and not yet collected: only that call waits for it and, on expiry of the
\* timeout, kills it; it is no child of the pool
CompilerInFlight(w) == proc[w].pc = "compiling"

\* C11: once the pool is torn down, no worker process and no compiler
\* subprocess started by a worker is running any more
C11_NothingRunsAfterTeardown ==
    mpc \in Reporting
        => \A w \in Workers : ~proc[w].alive /\ ~CompilerInFlight(w)

\* C12: whatever the compiler invocation does (exit 0, another exit status,
\* timeout, failed launch), test_compilation returns to worker(), no exception
\* leaves worker() or stops the dispatcher, and worker() returns a boolean after
\* it has incremented total_count exactly once for its task
C12_ProbeFailuresStayInWorker ==
    /\ [](~pool_error /\ (mpc = "crashed" => interrupted))
    /\ [][\A w \in Workers :
              /\ (proc[w].pc = "compiling" /\ proc'[w].alive /\ proc'[w] # proc[w])
                    => /\ proc'[w].pc = "returned"
                       /\ proc'[w].success \in BOOLEAN
                       /\ proc'[w].counted = 0
              /\ (proc[w].task # NoTask /\ proc[w].task \in returned' \ returned)
                    => /\ Release(w)
                       /\ proc[w].counted = 1
                       /\ total_count' = total_count]_vars

C12_Witness ==
    \E w \in Workers :
        /\ proc[w].alive /\ proc[w].pc = "release" /\ proc[w].counted = 1
        /\ ~proc[w].success /\ proc[w].cfile = None
        /\ total_count = 2 /\ successful_count = 1

\* every character class is excluded and no override alphabet is given
EmptyAlphabet ==
    /\ args.no_lowercase /\ args.no_uppercase /\ args.no_digits /\ args.no_symbols
    /\ ~args.whitespace /\ ~Truthy(args.charset)

\* C13: with an empty alphabet the run ends at the configuration error: the
\* manager with its lock and counters is never created, no pool process is
\* started, no task is submitted or executed, no probe writes a file and the
\* final statistics are never reached
C13_EmptyAlphabetEndsBeforeSetup ==
    EmptyAlphabet
        => /\ Charset = <<>>
           /\ mpc \in {"parse", "config_error", "crashed"}
           /\ mpc = "crashed" => interrupted
           /\ ~manager
           /\ \A w \in Workers : ~proc[w].alive /\ proc[w].pc = "idle"
           /\ queue = <<>> /\ returned = {} /\ fs = {}
           /\ total_count = 0 /\ successful_count = 0

C13_Witness ==
    /\ EmptyAlphabet /\ ~args.charset.given /\ args_tasks = 1
    /\ mpc = "config_error" /\ ~ENABLED Next

\* the characters of a sequence
Range(seq) == {seq[i] : i \in DOMAIN seq}

\* C15: the content generate_random_c_content returns for a non-empty alphabet
\* and a size N >= 0 has exactly N characters, each one of the alphabet
C15_ContentHasSizeAndAlphabet ==
    \A w \in Workers :
        Executing(w)
            => /\ Charset # <<>> /\ args.byte_size >= 0
               /\ Len(proc[w].content) = args.byte_size
               /\ Range(proc[w].content) \subseteq Range(Charset)
               /\ args.byte_size = 0 => proc[w].content = <<>>

C15_Witness ==
    \E w \in Workers :
        /\ proc[w].pc = "compiling" /\ args.byte_size = 2 /\ args.charset.given
        /\ Len(proc[w].content) = 2 /\ proc[w].content[1] \in {"{", "}"}

\* the ids of the tasks waiting in the pool's task queue
QueuedIds == UNION {queue[i][1] .. queue[i][2] : i \in DOMAIN queue}

\* the ids worker w has taken from the queue and not returned: the task it
\* executes and the rest of its chunk
ChunkIds(w) == IF proc[w].task = NoTask THEN {} ELSE proc[w].task .. proc[w].last

\* main's positions with the bounded run's tasks submitted
Submitted == {"b_drain", "interrupted", "report", "done"}

\* C16: a bounded run of T tasks submits the ids 0 .. T-1, each once; from then
\* on every id is at one place only (in the queue, with one worker, or
\* returned), goes from the queue to one worker and from it to the returned
\* ones and never back, and all T have returned when an uninterrupted run
\* reports
C16_EachTaskOnce ==
    /\ [](args_tasks # Unlimited /\ mpc \in Submitted /\ ~pool_error
            => /\ QueuedIds \cup UNION {ChunkIds(w) : w \in Workers} \cup returned
                    = 0 .. (args_tasks - 1)
               /\ Len(queue) = Cardinality(QueuedIds)
               /\ QueuedIds \cap returned = {}
               /\ \A w \in Workers :
                     /\ Cardinality(ChunkIds(w)) <= 1
                     /\ ChunkIds(w) \cap (QueuedIds \cup returned) = {}
                     /\ \A v \in Workers \ {w} : ChunkIds(w) \cap ChunkIds(v) = {}
               /\ (~interrupted /\ mpc \in Reporting)
                     => returned = 0 .. (args_tasks - 1))
    /\ [][args_tasks # Unlimited
            => /\ (mpc = "start" /\ mpc' = "b_drain")
                    => queue' = [i \in 1 .. args_tasks |-> <<i - 1, i - 1>>]
               /\ mpc \in Submitted
                    => /\ returned \subseteq returned'
                       /\ QueuedIds' \subseteq QueuedIds
                       /\ \A w \in Workers :
                             ChunkIds(w)' \subseteq QueuedIds \cup ChunkIds(w)]_vars

C16_Witness ==
    /\ args_tasks = 2 /\ mpc = "b_drain" /\ ~interrupted /\ queue = <<>>
    /\ proc[1].task = 1 /\ proc[1].pc = "release"
    /\ cpu_count >= 2 /\ proc[2].task = 0 /\ proc[2].pc = "returned"

\* the ids of the k-th batch (k = 1, 2, ...) of a pool of cpus processes
BatchIds(k, cpus) == ((k - 1) * batch_size(cpus)) .. (k * batch_size(cpus) - 1)

\* the ids some worker holds or the queue holds: submitted and not returned
PendingIds == QueuedIds \cup UNION {ChunkIds(w) : w \in Workers}

\* C17: in an unbounded run only the tasks of the last batch submitted are ever
\* in the queue or with a worker, and every task of the batches before it has
\* returned; the throughput line of a batch is printed when all its tasks have
\* returned, and the next batch is submitted only after that line
C17_BatchesStrictlySequential ==
    /\ [](args_tasks = Unlimited /\ ~pool_error
            => /\ PendingIds \subseteq BatchIds(batches, cpu_count)
               /\ returned \subseteq 0 .. (batches * BatchSize - 1)
               /\ batches >= 1 => 0 .. ((batches - 1) * BatchSize - 1) \subseteq returned
               /\ throughput_lines \in {batches - 1, batches} \cap Nat
               /\ (throughput_lines = batches \/ mpc = "u_progress")
                     => PendingIds = {} /\ returned = 0 .. (batches * BatchSize - 1)
               /\ mpc = "u_build" => throughput_lines = batches
               /\ mpc \in {"u_wait", "u_progress"} => throughput_lines = batches - 1)
    /\ [][args_tasks = Unlimited
            => /\ batches' # batches
                    => /\ throughput_lines = batches /\ PendingIds = {}
                       /\ returned = 0 .. (batches * BatchSize - 1)
               /\ throughput_lines' # throughput_lines
                    => /\ throughput_lines' = batches /\ PendingIds = {}
                       /\ returned = 0 .. (batches * BatchSize - 1)
                       /\ batches' = batches]_vars

C17_Witness ==
    /\ args_tasks = Unlimited /\ batches = 2 /\ throughput_lines = 1
    /\ mpc = "u_wait" /\ ~interrupted
    /\ \E w \in Workers : proc[w].pc = "compiling" /\ proc[w].task = BatchSize

\* the number of ids in a sequence of chunks
RECURSIVE ChunkTotal(_)
ChunkTotal(chunks) ==
    IF chunks = <<>> THEN 0
    ELSE (Head(chunks)[2] - Head(chunks)[1] + 1) + ChunkTotal(Tail(chunks))

\* the chunks hold the ids lo .. hi in ascending order, each id once
Contiguous(chunks, lo, hi) ==
    /\ ChunkTotal(chunks) = hi - lo + 1
    /\ UNION {chunks[i][1] .. chunks[i][2] : i \in DOMAIN chunks} = lo .. hi
    /\ \A i \in DOMAIN chunks :
          /\ chunks[i][1] <= chunks[i][2]
          /\ chunks[i][1] = IF i = 1 THEN lo ELSE chunks[i - 1][2] + 1

\* for every size of the pool, the k-th batch as pool.map cuts it carries the
\* ids (k-1)B .. kB-1 with B = cpus * 10
BatchesContiguous ==
    \A cpus \in 1 .. (MaxProcs + 1), k \in 1 .. MaxBatches :
        LET B == cpus * BatchFactor
        IN  Contiguous(batch_tasks((k - 1) * B, cpus), (k - 1) * B, k * B - 1)

\* C18: every batch of an unbounded run has cpu_count * 10 tasks, task_id
\* advances by that number with every batch, and the k-th batch carries the
\* ids (k-1)B .. kB-1 in ascending order, each once and none submitted before
C18_BatchIdsContiguous ==
    /\ [](/\ args_tasks = Unlimited => task_id = batches * cpu_count * BatchFactor
          /\ BatchesContiguous)
    /\ [][batches' # batches
            => /\ batches' = batches + 1
               /\ task_id' = task_id + cpu_count * BatchFactor
               /\ Contiguous(queue', task_id, task_id' - 1)
               /\ QueuedIds' = BatchIds(batches', cpu_count)
               /\ QueuedIds' \cap (returned \cup PendingIds) = {}]_vars

C18_Witness ==
    /\ args_tasks = Unlimited /\ batches = 2 /\ mpc = "u_wait"
    /\ task_id = 2 * cpu_count * BatchFactor
    /\ QueuedIds = BatchIds(2, cpu_count)

\* C19: the final statistics always complete and never divide by zero: with no
\* attempt the success rate is 0, with a throughput of 0 no estimate is
\* computed, and the estimate divides by a throughput greater than 0
C19_FinalStatsNeverDivideByZero ==
    /\ mpc = "report" => ENABLED Report
    /\ mpc = "done"
          => /\ stats.computed /\ ~stats.raised
             /\ ~Raises(stats.rate) /\ ~Raises(stats.success_rate)
             /\ total_count = 0 => stats.success_rate = Zero
             /\ stats.elapsed <= 0 => stats.rate = Zero
             /\ IsZero(stats.rate) => ~stats.estimated
             /\ stats.estimated
                   => stats.divisor = stats.rate /\ stats.rate.num > 0
                        /\ stats.rate.den > 0
    /\ mpc # "done" => stats = NoStats

C19_Witness ==
    /\ mpc = "done" /\ total_count = 0 /\ stats.elapsed = 1
    /\ stats.success_rate = Zero /\ IsZero(stats.rate) /\ ~stats.estimated

\* C14: a bounded run of T tasks that is not interrupted terminates: all T
\* tasks are executed and main() ends after the final statistics, which are
\* computed once; an unbounded run reaches the final statistics only after an
\* interrupt
C14_BoundedRunTerminates ==
    /\ (args_tasks # Unlimited /\ ~ConfigError(Charset))
          ~> (interrupted
                \/ (mpc = "done" /\ stats.computed
                      /\ returned = 0 .. (args_tasks - 1)))
    /\ [](args_tasks = Unlimited /\ mpc \in Reporting => interrupted)
    /\ [][/\ mpc = "done" => mpc' = "done" /\ stats' = stats
          /\ stats' # stats => ~stats.computed /\ mpc = "report"]_vars

C14_Witness ==
    /\ args_tasks = 2 /\ cpu_count = 2 /\ ~interrupted /\ mpc = "done"
    /\ stats.computed /\ returned = {0, 1} /\ total_count = 2

\* the multiples of ProgressEvery total_count has reached
Hundreds == {m \in 1 .. total_count : m % ProgressEvery = 0}

\* the periodic lines printed for m attempts
LinesFor(m) == {i \in DOMAIN progress_log : progress_log[i].attempts = m}

\* worker w has written its increment of total_count and not yet left its
\* critical section: the periodic check of line 138 is still before it
PastIncrement(w) == counter_lock = w /\ proc[w].pc \in {"r_succ", "w_succ", "release"}

\* C20 as stated: when the run is over, exactly one periodic line has been
\* printed for each multiple of 100 that total_count has reached
C20_LineForEveryHundredReached ==
    mpc \in Reporting => \A m \in Hundreds : Cardinality(LinesFor(m)) = 1

\* C20 as amended: a periodic line is printed at most once for each multiple
\* of 100 total_count reaches and for nothing else, by the worker whose
\* increment reached it, while it holds the lock, with attempts = the multiple
\* and successes = successful_count at that moment; it is printed exactly once
\* unless the pool is terminated while that worker is between its increment
\* and the end of its critical section
C20_ProgressLineOncePerHundred ==
    /\ [](/\ \A i \in DOMAIN progress_log :
                /\ progress_log[i].attempts \in Hundreds
                /\ progress_log[i].successes \in 0 .. progress_log[i].attempts
                /\ LinesFor(progress_log[i].attempts) = {i}
          /\ \A m \in Hundreds :
                \/ Cardinality(LinesFor(m)) = 1
                \/ total_count = m /\ \E w \in Workers : PastIncrement(w))
    /\ [][progress_log' # progress_log
            => \E w \in Workers :
                  /\ PastIncrement(w) /\ proc[w].alive /\ proc[w].counted = 1
                  /\ progress_log' =
                        Append(progress_log,
                               [attempts |-> total_count,
                                successes |-> successful_count, by |-> w])
                  /\ total_count % ProgressEvery = 0
                  /\ successful_count <= total_count
                  /\ total_count' = total_count
                  /\ successful_count' = successful_count]_vars

C20_Witness ==
    /\ cpu_count >= 2 /\ total_count = ProgressEvery + 1 /\ ~interrupted
    /\ Len(progress_log) = 1
    /\ progress_log[1].attempts = ProgressEvery /\ progress_log[1].successes = 1
    /\ \E w \in Workers : PastIncrement(w) /\ w # progress_log[1].by

====
